---- MODULE Spec2Model ----
(***************************************************************************)
(* A model of the drum sequencer of src/index.js: the Sound wrapper around *)
(* an Audio element, the Channel with its 16-step sequence and its         *)
(* setInterval loop, the Sequencer that fans play/stop/bpm out to the      *)
(* channels, and the handlers of the UI that call them.                    *)
(*                                                                         *)
(* JavaScript runs every handler to completion on one thread, so a handler *)
(* is one action.  The exception is Sound.stop, whose three statements are *)
(* three steps under a program counter (no other handler runs between      *)
(* them): the order of its statements is itself a subject of the checks.   *)
(*                                                                         *)
(* Time is kept relative: every timer carries the milliseconds left until  *)
(* it is due, Advance lets time pass up to the next due timer, and a due   *)
(* timer runs before time passes again.  Timers are ideal (they run exactly*)
(* when due); timers due at the same instant run in any order, and a call  *)
(* from outside may come at any instant at which a timer is due or has run.*)
(*                                                                         *)
(* Left out: the cache of Event objects in Channel.events (an event is     *)
(* identified by its name), the listeners of the BeatElements that toggle  *)
(* the 'playing' class, and the end of a sample that plays to its end.     *)
(***************************************************************************)
EXTENDS Integers, Sequences, FiniteSets, TLC

\* ------------------------------------------------------------------ bounds

\* The channels of the model: the first two of the eight of the source.
Channels == {0, 1}

\* The tempos the operations draw from.  For each of them the double
\* (60 / bpm) * (1000 / 4) is an exact integer: 250 and 125.
Tempos == {60, 120}

\* The cells of a row the user clicks.
EditCells == {0, 1}

\* The durations and levels of the direct calls of Sound.play: a duration
\* under 10 ms, the step of 120 bpm, and the default of the parameter.
Durations == {5, 125, 1000}

Levels == {0, 1}

\* setInterval timers a channel may hold at once (loop is not offered beyond).
MaxTimers == 2

\* Sound.stop timeouts a sound may have pending at once.
MaxTimeouts == 2

\* Calls made from outside the timers (the API and the UI) in one run.
MaxCalls == 3

\* Calls in a run that calls Sequencer.play and Sequencer.stop alone.
MaxRestarts == 5

\* Those of the calls that address one channel alone (a method of a Channel
\* called directly, a click on a BeatElement).
MaxDirect == 1

\* ---------------------------------------------------------------- helpers

Max(a, b) == IF a >= b THEN a ELSE b

Min(S) == CHOOSE x \in S : \A y \in S : x <= y

\* A JavaScript array as a function from 0 .. length - 1.
Arr(t) == [i \in 0 .. Len(t) - 1 |-> t[i + 1]]

Length(a) == Cardinality(DOMAIN a)

\* new Array(16).fill(0)
Steps == 16

Zeros == [i \in 0 .. Steps - 1 |-> 0]

SoundName(c) == IF c = 0 THEN "hat" ELSE IF c = 1 THEN "kick" ELSE "snare"

\* The sequences the bootstrap assigns to channels 0 and 1.
SeedSequence(c) ==
    IF c = 0 THEN Arr(<<1, 0, 1, 1, 1, 0, 1, 1, 1, 0, 1, 1, 1, 1, 1, 1>>)
    ELSE IF c = 1 THEN Arr(<<1, 0, 0, 0, 0, 0, 1, 0, 0, 0, 0, 0, 0, 0, 0, 0>>)
    ELSE Zeros

DefaultBpm == 120

\* StepDuration with the division of the beat into 4 sub-beats left out.
StepDurationPerBeat(b) == (60 * 1000) \div b

\* this.duration = (60 / bpm) * (1000 / 4), in doubles.  1000 / 4 is exactly
\* 250 and, for the tempos of the model, 60 * 250 / bpm is an integer that the
\* double arithmetic yields exactly, so the integer quotient is the value.
StepDuration(b) == (60 * (1000 \div 4)) \div b

\* if (bpm > 60) this.sound.rate = 2; the rate is left alone otherwise.
RateAfter(rate, b) == IF b > 60 THEN 2 ELSE rate

\* ------------------------------------------------------------------ state

VARIABLES
    volume,        \* Sound: audio.volume
    paused,        \* Sound: audio.paused
    currentTime,   \* Sound: audio.currentTime, 0 or 1 (1: some position > 0)
    playbackRate,  \* Sound: audio.playbackRate
    sequence,      \* Channel.sequence
    beat,          \* Channel.beat
    duration,      \* Channel.duration
    interval,      \* Channel.interval: index in timers[c] of the timer the
                   \* handle names, 0 when it names no live timer
    timers,        \* the live setInterval timers of each channel, oldest first
    timeouts,      \* the pending setTimeout(() => this.stop()) of each sound
    bpm,           \* Sequencer.__bpm
    playing,       \* SequencerElement.playing
    elBeat,        \* BeatElement.beat of the rendered elements
    pc,            \* position of the running Sound.stop callback
    dispatched,    \* the events the last handler dispatched on document
    last,          \* the last handler that ran
    ticks,         \* playBeat calls of a channel since its cursor was last
                   \* set to 0, modulo Steps
    starts,        \* loop calls of a channel since it last went from no
                   \* handle to a handle (kept when stop clears the handle)
    cleared,       \* a channel was cleared and its sequence not written since
    calls,         \* calls made from outside the timers
    direct         \* those of the calls that addressed one channel alone

soundVars == <<volume, paused, currentTime, playbackRate>>
channelVars == <<sequence, beat, duration, interval, timers, timeouts>>
uiVars == <<playing, elBeat>>
vars == <<volume, paused, currentTime, playbackRate, sequence, beat, duration,
          interval, timers, timeouts, bpm, playing, elBeat, pc, dispatched,
          last, ticks, starts, cleared, calls, direct>>

Idle == [at |-> "idle", ch |-> -1]

\* What is kept of the last handler: its name, the channel it was called on
\* (-1: none), its argument, the cursors it found, and, for Sound.stop, the
\* volume it found and the duration and age of the timeout that called it.
Handler(op, c, a) ==
    [op |-> op, ch |-> c, arg |-> a, beats |-> [x \in Channels |-> 0],
     level |-> 0, duration |-> 0, age |-> 0]

HandlerAt(op, c, a) == [Handler(op, c, a) EXCEPT !.beats = beat]

\* The state once the script has run and window.onload has rendered the UI.
Init ==
    /\ volume = [c \in Channels |-> 1]
    /\ paused = [c \in Channels |-> TRUE]
    /\ currentTime = [c \in Channels |-> 0]
    /\ playbackRate = [c \in Channels |-> RateAfter(1, DefaultBpm)]
    /\ sequence = [c \in Channels |-> SeedSequence(c)]
    /\ beat = [c \in Channels |-> 0]
    /\ duration = [c \in Channels |-> StepDuration(DefaultBpm)]
    /\ interval = [c \in Channels |-> 0]
    /\ timers = [c \in Channels |-> <<>>]
    /\ timeouts = [c \in Channels |-> <<>>]
    /\ bpm = DefaultBpm
    /\ playing = FALSE
    /\ elBeat = [c \in Channels |-> SeedSequence(c)]
    /\ pc = Idle
    /\ dispatched = <<>>
    /\ last = Handler("init", -1, 0)
    /\ ticks = [c \in Channels |-> 0]
    /\ starts = [c \in Channels |-> 0]
    /\ cleared = [c \in Channels |-> FALSE]
    /\ calls = 0
    /\ direct = 0

\* ------------------------------------------------------------------ Sound

\* SoundPlay with the timeout set to the whole duration.
SoundPlayWholeDuration(c, d, level) ==
    /\ volume' = [volume EXCEPT ![c] = level]
    /\ paused' = [paused EXCEPT ![c] = FALSE]
    /\ timeouts' = [timeouts EXCEPT ![c] =
           Append(@, [duration |-> d, remaining |-> d, age |-> 0])]
    /\ UNCHANGED <<currentTime, playbackRate>>

\* Sound.play with the stop scheduled 10 ms after the duration, not before.
SoundPlayLate(c, d, level) ==
    /\ volume' = [volume EXCEPT ![c] = level]
    /\ paused' = [paused EXCEPT ![c] = FALSE]
    /\ timeouts' = [timeouts EXCEPT ![c] =
           Append(@, [duration |-> d, remaining |-> d + 10, age |-> 0])]
    /\ UNCHANGED <<currentTime, playbackRate>>

\* Sound.play: set the volume, start the audio, and leave a timeout that
\* calls stop after duration - 10 ms (a negative delay runs as a delay of 0).
\* The timeout keeps the duration it was made for and its age, the time
\* since the call.
SoundPlay(c, d, level) ==
    /\ volume' = [volume EXCEPT ![c] = level]
    /\ paused' = [paused EXCEPT ![c] = FALSE]
    /\ timeouts' = [timeouts EXCEPT ![c] =
           Append(@, [duration |-> d, remaining |-> Max(0, d - 10), age |-> 0])]
    /\ UNCHANGED <<currentTime, playbackRate>>

DueTimeouts(c) == {i \in DOMAIN timeouts[c] : timeouts[c][i].remaining = 0}

Without(s, i) == SubSeq(s, 1, i - 1) \o SubSeq(s, i + 1, Len(s))

\* SoundStopVolume with the audio paused before the volume is touched.
SoundStopPauseFirst(c) ==
    /\ paused' = [paused EXCEPT ![c] = TRUE]
    /\ pc' = [at |-> "pause", ch |-> c]
    /\ UNCHANGED <<volume, currentTime, playbackRate>>

\* Sound.stop, first statement: this.volume = 0
SoundStopVolume(c) ==
    /\ volume' = [volume EXCEPT ![c] = 0]
    /\ pc' = [at |-> "pause", ch |-> c]
    /\ UNCHANGED <<paused, currentTime, playbackRate>>

\* Sound.stop, second statement: this.audio.pause()
SoundStopPause(c) ==
    /\ pc = [at |-> "pause", ch |-> c]
    /\ paused' = [paused EXCEPT ![c] = TRUE]
    /\ pc' = [at |-> "rewind", ch |-> c]
    /\ UNCHANGED <<volume, currentTime, playbackRate, channelVars, bpm, uiVars,
                   dispatched, last, ticks, starts, cleared, calls, direct>>

\* Sound.stop, third statement: this.audio.currentTime = 0
SoundStopRewind(c) ==
    /\ pc = [at |-> "rewind", ch |-> c]
    /\ currentTime' = [currentTime EXCEPT ![c] = 0]
    /\ pc' = Idle
    /\ UNCHANGED <<volume, paused, playbackRate, channelVars, bpm, uiVars,
                   dispatched, last, ticks, starts, cleared, calls, direct>>

\* The callback of a due timeout of Sound.play: () => this.stop()
StopTimeout(c) ==
    /\ pc = Idle
    /\ \E i \in DueTimeouts(c) :
        /\ timeouts' = [timeouts EXCEPT ![c] = Without(@, i)]
        /\ last' = [Handler("timeout", c, 0) EXCEPT
                        !.level = volume[c],
                        !.duration = timeouts[c][i].duration,
                        !.age = timeouts[c][i].age]
    /\ SoundStopVolume(c)
    /\ dispatched' = <<>>
    /\ UNCHANGED <<sequence, beat, duration, interval, timers, bpm, uiVars,
                   ticks, starts, cleared, calls, direct>>

\* ---------------------------------------------------------------- Channel

\* playBeat with the cursor wrapping one step late (> for >=).
playBeatWrapLate(c) ==
    LET cell == sequence[c][beat[c]] IN
    /\ IF cell # 0
       THEN /\ dispatched' = <<[name |-> SoundName(c), index |-> beat[c]]>>
            /\ SoundPlay(c, duration[c], 1)
       ELSE /\ dispatched' = <<>>
            /\ SoundPlay(c, duration[c], 0)
    /\ beat' = [beat EXCEPT ![c] =
           IF @ + 1 > Length(sequence[c]) THEN 0 ELSE @ + 1]

\* playBeat with the event dispatched whatever the cell holds.
playBeatAlwaysDispatch(c) ==
    LET cell == sequence[c][beat[c]] IN
    /\ dispatched' = <<[name |-> SoundName(c), index |-> beat[c]]>>
    /\ SoundPlay(c, duration[c], IF cell # 0 THEN 1 ELSE 0)
    /\ beat' = [beat EXCEPT ![c] =
           IF @ + 1 >= Length(sequence[c]) THEN 0 ELSE @ + 1]

\* playBeat with the event tagged with the cursor after it has advanced.
playBeatTagNext(c) ==
    LET cell == sequence[c][beat[c]]
        next == IF beat[c] + 1 >= Length(sequence[c]) THEN 0 ELSE beat[c] + 1 IN
    /\ IF cell # 0
       THEN /\ dispatched' = <<[name |-> SoundName(c), index |-> next]>>
            /\ SoundPlay(c, duration[c], 1)
       ELSE /\ dispatched' = <<>>
            /\ SoundPlay(c, duration[c], 0)
    /\ beat' = [beat EXCEPT ![c] = next]

\* playBeat reading the sequence the channel was seeded with, not the
\* current one.
playBeatFromSeed(c) ==
    LET cell == SeedSequence(c)[beat[c]] IN
    /\ IF cell # 0
       THEN /\ dispatched' = <<[name |-> SoundName(c), index |-> beat[c]]>>
            /\ SoundPlay(c, duration[c], 1)
       ELSE /\ dispatched' = <<>>
            /\ SoundPlay(c, duration[c], 0)
    /\ beat' = [beat EXCEPT ![c] =
           IF @ + 1 >= Length(sequence[c]) THEN 0 ELSE @ + 1]

\* Channel.playBeat
playBeat(c) ==
    LET cell == sequence[c][beat[c]] IN
    /\ IF cell # 0
       THEN /\ dispatched' = <<[name |-> SoundName(c), index |-> beat[c]]>>
            /\ SoundPlay(c, duration[c], 1)
       ELSE /\ dispatched' = <<>>
            /\ SoundPlay(c, duration[c], 0)
    /\ beat' = [beat EXCEPT ![c] =
           IF @ + 1 >= Length(sequence[c]) THEN 0 ELSE @ + 1]

\* The callback of a channel's setInterval timer: playBeat, and the timer is
\* due again one period later.
IntervalFire(c) ==
    /\ pc = Idle
    /\ Len(timeouts[c]) < MaxTimeouts
    /\ \E i \in DOMAIN timers[c] :
        /\ timers[c][i].remaining = 0
        /\ timers' = [timers EXCEPT ![c][i].remaining = timers[c][i].period]
    /\ playBeat(c)
    /\ ticks' = [ticks EXCEPT ![c] = (@ + 1) % Steps]
    /\ last' = HandlerAt("playBeat", c, 0)
    /\ UNCHANGED <<sequence, duration, interval, bpm, uiVars, pc, starts, cleared,
                   calls, direct>>

\* loop that cancels the timer its handle names before it makes the new one.
loopReplacing(S) ==
    /\ timers' = [c \in Channels |->
           IF c \in S
           THEN Append(IF interval[c] # 0
                       THEN Without(timers[c], interval[c])
                       ELSE timers[c],
                       [period |-> duration[c], remaining |-> duration[c]])
           ELSE timers[c]]
    /\ interval' = [c \in Channels |->
           IF c \in S THEN Len(timers'[c]) ELSE interval[c]]
    /\ starts' = [c \in Channels |->
           IF c \in S THEN (IF interval[c] = 0 THEN 1 ELSE starts[c] + 1)
           ELSE starts[c]]

\* Channel.loop on each channel of S: a new timer of period this.duration,
\* whose id replaces the one in this.interval.
loop(S) ==
    /\ timers' = [c \in Channels |->
           IF c \in S
           THEN Append(timers[c], [period |-> duration[c], remaining |-> duration[c]])
           ELSE timers[c]]
    /\ interval' = [c \in Channels |->
           IF c \in S THEN Len(timers[c]) + 1 ELSE interval[c]]
    /\ starts' = [c \in Channels |->
           IF c \in S THEN (IF interval[c] = 0 THEN 1 ELSE starts[c] + 1)
           ELSE starts[c]]

\* stop with the cursor left where it is.
stopKeepCursor(S) ==
    /\ timers' = [c \in Channels |->
           IF c \in S /\ interval[c] # 0
           THEN Without(timers[c], interval[c])
           ELSE timers[c]]
    /\ interval' = [c \in Channels |-> IF c \in S THEN 0 ELSE interval[c]]
    /\ UNCHANGED beat
    /\ ticks' = [c \in Channels |-> IF c \in S THEN 0 ELSE ticks[c]]
    /\ UNCHANGED starts

\* stop that cancels every timer of the channel.
stopAll(S) ==
    /\ timers' = [c \in Channels |-> IF c \in S THEN <<>> ELSE timers[c]]
    /\ interval' = [c \in Channels |-> IF c \in S THEN 0 ELSE interval[c]]
    /\ beat' = [c \in Channels |-> IF c \in S THEN 0 ELSE beat[c]]
    /\ ticks' = [c \in Channels |-> IF c \in S THEN 0 ELSE ticks[c]]
    /\ UNCHANGED starts

\* Channel.stop on each channel of S: clearInterval(this.interval) removes
\* the timer the handle names, if it is live, and the cursor returns to 0.
stop(S) ==
    /\ timers' = [c \in Channels |->
           IF c \in S /\ interval[c] # 0
           THEN Without(timers[c], interval[c])
           ELSE timers[c]]
    /\ interval' = [c \in Channels |-> IF c \in S THEN 0 ELSE interval[c]]
    /\ beat' = [c \in Channels |-> IF c \in S THEN 0 ELSE beat[c]]
    /\ ticks' = [c \in Channels |-> IF c \in S THEN 0 ELSE ticks[c]]
    /\ UNCHANGED starts

\* Channel's bpm setter on each channel of S.
setBpm(S, b) ==
    /\ duration' = [c \in Channels |->
           IF c \in S THEN StepDuration(b) ELSE duration[c]]
    /\ playbackRate' = [c \in Channels |->
           IF c \in S THEN RateAfter(playbackRate[c], b) ELSE playbackRate[c]]

\* clear with the sequence left as it is.
clearNothing(S) ==
    /\ UNCHANGED sequence
    /\ cleared' = [c \in Channels |-> IF c \in S THEN TRUE ELSE cleared[c]]

\* clear with an array one cell short.
clearShort(S) ==
    /\ sequence' = [c \in Channels |->
           IF c \in S THEN [i \in 0 .. Steps - 2 |-> 0] ELSE sequence[c]]
    /\ cleared' = [c \in Channels |-> IF c \in S THEN TRUE ELSE cleared[c]]

\* Channel.clear on each channel of S.
clear(S) ==
    /\ sequence' = [c \in Channels |-> IF c \in S THEN Zeros ELSE sequence[c]]
    /\ cleared' = [c \in Channels |-> IF c \in S THEN TRUE ELSE cleared[c]]

\* A call from outside the timers, in a run of at most n of them: it waits
\* for the running callback.
CalledIn(n) ==
    /\ pc = Idle
    /\ calls < n
    /\ calls' = calls + 1
    /\ dispatched' = <<>>
    /\ UNCHANGED direct

Called == CalledIn(MaxCalls)

\* A call that addresses one channel alone.
CalledOn(c) ==
    /\ pc = Idle
    /\ calls < MaxCalls
    /\ direct < MaxDirect
    /\ calls' = calls + 1
    /\ direct' = direct + 1
    /\ dispatched' = <<>>

\* Sound.play called directly.
SoundPlayCall(c, d, level) ==
    /\ Called
    /\ Len(timeouts[c]) < MaxTimeouts
    /\ SoundPlay(c, d, level)
    /\ last' = [Handler("Sound.play", c, d) EXCEPT !.level = level]
    /\ UNCHANGED <<sequence, beat, duration, interval, timers, bpm, uiVars, pc,
                   ticks, starts, cleared>>

\* Sound.stop called directly.
SoundStopCall(c) ==
    /\ Called
    /\ SoundStopVolume(c)
    /\ last' = [Handler("Sound.stop", c, 0) EXCEPT !.level = volume[c]]
    /\ UNCHANGED <<channelVars, bpm, uiVars, ticks, starts, cleared>>

CanLoop(S) == \A c \in S : Len(timers[c]) < MaxTimers

ChannelLoop(c) ==
    /\ CalledOn(c)
    /\ CanLoop({c})
    /\ loop({c})
    /\ last' = Handler("Channel.loop", c, 0)
    /\ UNCHANGED <<soundVars, sequence, beat, duration, timeouts, bpm, uiVars,
                   pc, ticks, cleared>>

ChannelStop(c) ==
    /\ CalledOn(c)
    /\ stop({c})
    /\ last' = HandlerAt("Channel.stop", c, 0)
    /\ UNCHANGED <<soundVars, sequence, duration, timeouts, bpm, uiVars, pc,
                   cleared>>

ChannelSetBpm(c, b) ==
    /\ CalledOn(c)
    /\ setBpm({c}, b)
    /\ last' = Handler("Channel.bpm", c, b)
    /\ UNCHANGED <<volume, paused, currentTime, sequence, beat, interval,
                   timers, timeouts, bpm, uiVars, pc, ticks, starts, cleared>>

\* Channel.clear that also returns the cursor to 0.
ChannelClearRewind(c) ==
    /\ CalledOn(c)
    /\ clear({c})
    /\ beat' = [beat EXCEPT ![c] = 0]
    /\ ticks' = [ticks EXCEPT ![c] = 0]
    /\ UNCHANGED starts
    /\ last' = Handler("Channel.clear", c, 0)
    /\ UNCHANGED <<soundVars, duration, interval, timers, timeouts, bpm,
                   uiVars, pc>>

ChannelClear(c) ==
    /\ CalledOn(c)
    /\ clear({c})
    /\ last' = Handler("Channel.clear", c, 0)
    /\ UNCHANGED <<soundVars, beat, duration, interval, timers, timeouts, bpm,
                   uiVars, pc, ticks, starts>>

\* -------------------------------------------------------------- Sequencer

\* Sequencer.play, in a run of at most n calls.
SequencerPlayIn(n) ==
    /\ CalledIn(n)
    /\ CanLoop(Channels)
    /\ loop(Channels)
    /\ last' = Handler("Sequencer.play", -1, 0)
    /\ UNCHANGED <<soundVars, sequence, beat, duration, timeouts, bpm, uiVars,
                   pc, ticks, cleared>>

SequencerPlay == SequencerPlayIn(MaxCalls)

\* Sequencer.stop, in a run of at most n calls.
SequencerStopIn(n) ==
    /\ CalledIn(n)
    /\ stop(Channels)
    /\ last' = HandlerAt("Sequencer.stop", -1, 0)
    /\ UNCHANGED <<soundVars, sequence, duration, timeouts, bpm, uiVars, pc,
                   cleared>>

SequencerStop == SequencerStopIn(MaxCalls)

\* SequencerSetBpm with the tempo kept by the Sequencer and not passed on.
SequencerSetBpmOwn(b) ==
    /\ Called
    /\ bpm' = b
    /\ last' = Handler("Sequencer.bpm", -1, b)
    /\ UNCHANGED <<soundVars, sequence, beat, duration, interval,
                   timers, timeouts, uiVars, pc, ticks, starts, cleared>>

\* The bpm setter restarting each running timer at the new step duration.
SequencerSetBpmRestart(b) ==
    /\ Called
    /\ bpm' = b
    /\ setBpm(Channels, b)
    /\ timers' = [c \in Channels |->
           [i \in DOMAIN timers[c] |->
               [period |-> StepDuration(b), remaining |-> StepDuration(b)]]]
    /\ last' = Handler("Sequencer.bpm", -1, b)
    /\ UNCHANGED <<volume, paused, currentTime, sequence, beat, interval,
                   timeouts, uiVars, pc, ticks, starts, cleared>>

\* Sequencer's bpm setter
SequencerSetBpm(b) ==
    /\ Called
    /\ bpm' = b
    /\ setBpm(Channels, b)
    /\ last' = Handler("Sequencer.bpm", -1, b)
    /\ UNCHANGED <<volume, paused, currentTime, sequence, beat, interval,
                   timers, timeouts, uiVars, pc, ticks, starts, cleared>>

\* --------------------------------------------------------------------- UI

\* The click handler of a BeatElement.
BeatClick(c, i) ==
    /\ CalledOn(c)
    /\ elBeat' = [elBeat EXCEPT ![c][i] = IF @ = 0 THEN 1 ELSE 0]
    /\ sequence' = [sequence EXCEPT ![c][i] = elBeat'[c][i]]
    /\ cleared' = [cleared EXCEPT ![c] = FALSE]
    /\ last' = Handler("BeatElement.click", c, i)
    /\ UNCHANGED <<soundVars, beat, duration, interval, timers, timeouts, bpm,
                   playing, pc, ticks, starts>>

\* The play button's handler with the playing flag never set.
PlayButtonClickNoFlag ==
    /\ Called
    /\ IF playing
       THEN /\ playing' = FALSE
            /\ stop(Channels)
            /\ last' = HandlerAt("playButton.click", -1, 0)
       ELSE /\ playing' = playing
            /\ CanLoop(Channels)
            /\ loop(Channels)
            /\ last' = HandlerAt("playButton.click", -1, 1)
            /\ UNCHANGED <<beat, ticks>>
    /\ UNCHANGED <<soundVars, sequence, duration, timeouts, bpm, elBeat, pc,
                   cleared>>

\* The click handler of the play button.
PlayButtonClick ==
    /\ Called
    /\ IF playing
       THEN /\ playing' = FALSE
            /\ stop(Channels)
            /\ last' = HandlerAt("playButton.click", -1, 0)
       ELSE /\ playing' = TRUE
            /\ CanLoop(Channels)
            /\ loop(Channels)
            /\ last' = HandlerAt("playButton.click", -1, 1)
            /\ UNCHANGED <<beat, ticks>>
    /\ UNCHANGED <<soundVars, sequence, duration, timeouts, bpm, elBeat, pc,
                   cleared>>

\* The click handler of the clear button: every channel is cleared and the
\* rows are rendered again from the cleared sequences.
ClearButtonClick ==
    /\ Called
    /\ clear(Channels)
    /\ elBeat' = [c \in Channels |-> Zeros]
    /\ last' = Handler("clearButton.click", -1, 0)
    /\ UNCHANGED <<soundVars, beat, duration, interval, timers, timeouts, bpm,
                   playing, pc, ticks, starts>>

\* ------------------------------------------------------------------- time

Remaining ==
    UNION {{timers[c][i].remaining : i \in DOMAIN timers[c]} : c \in Channels}
    \cup UNION {{timeouts[c][i].remaining : i \in DOMAIN timeouts[c]} : c \in Channels}

\* Time passes until the next timer is due; nothing is due before.
Advance ==
    /\ pc = Idle
    /\ Remaining # {}
    /\ \A r \in Remaining : r > 0
    /\ LET d == Min(Remaining) IN
        /\ timers' = [c \in Channels |-> [i \in DOMAIN timers[c] |->
               [timers[c][i] EXCEPT !.remaining = @ - d]]]
        /\ timeouts' = [c \in Channels |-> [i \in DOMAIN timeouts[c] |->
               [timeouts[c][i] EXCEPT !.remaining = @ - d, !.age = @ + d]]]
        /\ last' = Handler("advance", -1, 0)
    /\ currentTime' = [c \in Channels |-> IF paused[c] THEN currentTime[c] ELSE 1]
    /\ dispatched' = <<>>
    /\ UNCHANGED <<volume, paused, playbackRate, sequence, beat, duration,
                   interval, bpm, uiVars, pc, ticks, starts, cleared, calls, direct>>

\* ---------------------------------------------------------- specifications

IntervalStep == \E c \in Channels : IntervalFire(c)

TimeoutStep ==
    \/ \E c \in Channels : StopTimeout(c)
    \/ \E c \in Channels : SoundStopPause(c)
    \/ \E c \in Channels : SoundStopRewind(c)
    \/ Advance

SequencerStep ==
    \/ SequencerPlay
    \/ SequencerStop
    \/ \E b \in Tempos : SequencerSetBpm(b)

ChannelStep ==
    \/ \E c \in Channels : ChannelLoop(c)
    \/ \E c \in Channels : ChannelStop(c)
    \/ \E c \in Channels, b \in Tempos : ChannelSetBpm(c, b)
    \/ \E c \in Channels : ChannelClear(c)

UIStep ==
    \/ \E c \in Channels, i \in EditCells : BeatClick(c, i)
    \/ PlayButtonClick
    \/ ClearButtonClick

SoundStep ==
    \/ \E c \in Channels, d \in Durations, level \in Levels : SoundPlayCall(c, d, level)
    \/ \E c \in Channels : SoundStopCall(c)

\* The program: the Sequencer, its Channels and the UI, with the timers.
Next == IntervalStep \/ TimeoutStep \/ SequencerStep \/ ChannelStep \/ UIStep

Spec == Init /\ [][Next]_vars

\* The program driven through the Sequencer alone.
NextSequencer == IntervalStep \/ TimeoutStep \/ SequencerStep

SpecSequencer == Init /\ [][NextSequencer]_vars

\* The program driven through the buttons and cells of the UI alone.
NextUI == IntervalStep \/ TimeoutStep \/ UIStep

SpecUI == Init /\ [][NextUI]_vars

\* The Sounds alone, called directly.
NextSound == TimeoutStep \/ SoundStep

SpecSound == Init /\ [][NextSound]_vars

\* The program played from the UI, with the calls that edit a channel or the
\* tempo: clear, the bpm setters and the clicks on the cells.
NextEdit ==
    \/ IntervalStep
    \/ TimeoutStep
    \/ UIStep
    \/ \E b \in Tempos : SequencerSetBpm(b)
    \/ \E c \in Channels : ChannelClear(c)
    \/ \E c \in Channels, b \in Tempos : ChannelSetBpm(c, b)

SpecEdit == Init /\ [][NextEdit]_vars

\* The Sequencer played and stopped again and again, nothing else called.
NextRestart ==
    \/ IntervalStep
    \/ TimeoutStep
    \/ SequencerPlayIn(MaxRestarts)
    \/ SequencerStopIn(MaxRestarts)

SpecRestart == Init /\ [][NextRestart]_vars

\* ------------------------------------------------------------------ claims

\* C1: a channel whose cursor was set to 0 and that has since run N ticks
\* with no stop has its cursor at N mod 16 (ticks counts N modulo 16): the
\* cursor moves by 1 per tick and wraps from 15 to 0.
C1_CursorIsTicksMod16 == \A c \in Channels : beat[c] = ticks[c]

C1_CursorWrapped ==
    \E c \in Channels :
        /\ last.op = "playBeat" /\ last.ch = c
        /\ last.beats[c] = Steps - 1
        /\ beat[c] = 0

Silent(c) == volume[c] = 0 /\ paused[c] /\ currentTime[c] = 0

\* C2: a tick dispatches exactly one event, named after the sound and the
\* cursor as it was before the tick, when the cell at the cursor is 1 and
\* none when it is 0, in the step that plays the sound; no other step
\* dispatches any.
C2_TickNotifiesOnce ==
    [][/\ \A c \in Channels : IntervalFire(c) =>
            /\ dispatched' =
                  IF sequence[c][beat[c]] = 1
                  THEN <<[name |-> SoundName(c), index |-> beat[c]]>>
                  ELSE <<>>
            /\ ~paused'[c]
            /\ volume'[c] = sequence[c][beat[c]]
            /\ Len(timeouts'[c]) = Len(timeouts[c]) + 1
       /\ (~ \E c \in Channels : IntervalFire(c)) => dispatched' = <<>>]_vars

C2_NotifiedMidPattern ==
    /\ last.op = "playBeat"
    /\ Len(dispatched) = 1
    /\ dispatched[1].name = SoundName(last.ch)
    /\ dispatched[1].index = last.beats[last.ch]
    /\ dispatched[1].index > 1

\* C3: a channel whose interval handle names no live timer (it was stopped
\* and not started since, or never started) runs no tick.
C3_NoTickAfterStop ==
    [][\A c \in Channels : interval[c] = 0 => ~IntervalFire(c)]_vars

\* C4: right after Sequencer.stop the cursor of every channel is 0.
C4_StopResetsEveryCursor ==
    (\/ last.op = "Sequencer.stop"
     \/ (last.op = "playButton.click" /\ last.arg = 0))
    => \A c \in Channels : beat[c] = 0

C4_StoppedAtDifferentCursors ==
    /\ last.op = "Sequencer.stop"
    /\ \A c \in Channels : last.beats[c] # 0
    /\ \E c, d \in Channels : last.beats[c] # last.beats[d]

\* C5: driven through the Sequencer, every channel's duration is
\* (60 / bpm) * (1000 / 4) for the Sequencer's tempo, and the tempo read is
\* the last one set.
C5_DurationFollowsTempo ==
    /\ \A c \in Channels : duration[c] * bpm = 60 * (1000 \div 4)
    /\ last.op = "Sequencer.bpm" => bpm = last.arg

C5_TempoChangedWhilePlaying ==
    /\ last.op = "Sequencer.bpm"
    /\ \A c \in Channels :
        /\ timers[c] # <<>>
        /\ timers[c][1].period # duration[c]

\* C6: right after the Sequencer's tempo is set to b, every sound's playback
\* rate is 2 if b > 60 and 1 if b <= 60.
C6_RateFollowsTempo ==
    last.op = "Sequencer.bpm" =>
        \A c \in Channels : playbackRate[c] = IF last.arg > 60 THEN 2 ELSE 1

\* C7 as stated: at 120 bpm the duration of a step is 250 ms.
C7_StepAt120Is250 ==
    bpm = 120 => \A c \in Channels : duration[c] = 250

\* C7 as amended: at 120 bpm the duration of a step is 125 ms.
C7_StepAt120Is125 ==
    bpm = 120 => \A c \in Channels : duration[c] = 125

C7_TempoSetTo120 ==
    /\ last.op = "Sequencer.bpm"
    /\ last.arg = 120
    /\ calls > 1

\* C8: while Sound.stop runs, the volume is 0 before the audio is paused and
\* while it is paused and not yet rewound.
C8_VolumeZeroBeforePause ==
    /\ pc.at = "pause" => volume[pc.ch] = 0
    /\ pc.at = "rewind" => volume[pc.ch] = 0 /\ paused[pc.ch]

C8_PausedFromAudible ==
    /\ pc.at = "rewind"
    /\ last.op = "timeout"
    /\ last.level = 1

\* C9 as stated: the stop a Sound.play(duration, level) leaves behind runs
\* duration - 10 ms after the call, and the sound is silent once it has run.
C9_StopAtDurationMinus10 ==
    last.op = "timeout" =>
        /\ last.age = last.duration - 10
        /\ pc = Idle => Silent(last.ch)

\* C9 as amended: the stop runs duration - 10 ms after the call when the
\* duration is at least 10 ms and 0 ms after it otherwise, and the sound is
\* silent once it has run.
C9_StopAtClampedDelay ==
    last.op = "timeout" =>
        /\ last.age = IF last.duration >= 10 THEN last.duration - 10 ELSE 0
        /\ pc = Idle => Silent(last.ch)

C9_StoppedWithOthersPending ==
    /\ last.op = "timeout"
    /\ pc = Idle
    /\ last.age = 115
    /\ last.level = 1
    /\ timeouts[last.ch] # <<>>

\* C10: a tick of a channel that was cleared, and whose sequence was not
\* written since, dispatches no event and plays the sound at volume 0.
C10_NoNotificationAfterClear ==
    [][\A c \in Channels : cleared[c] /\ IntervalFire(c) =>
            dispatched' = <<>> /\ volume'[c] = 0]_vars

C10_TickedOnClearedCell ==
    \E c \in Channels :
        /\ cleared[c]
        /\ last.op = "playBeat" /\ last.ch = c
        /\ SeedSequence(c)[last.beats[c]] = 1
        /\ last.beats[c] > 1

\* A step that calls Channel.loop on channel c.
Started(c) ==
    \/ SequencerPlay
    \/ SequencerPlayIn(MaxRestarts)
    \/ ChannelLoop(c)
    \/ PlayButtonClick /\ ~playing

\* A step that calls Channel.stop on channel c.
Stopped(c) ==
    \/ SequencerStop
    \/ SequencerStopIn(MaxRestarts)
    \/ ChannelStop(c)
    \/ PlayButtonClick /\ playing

\* C11: a start adds one timer of period the step duration and cancels none,
\* so two starts with no stop between leave two; each timer of a channel
\* runs on its own: its tick advances the cursor by one, plays the sound and
\* makes that timer alone due again one period later, and no timer is ever
\* overdue, so each of the two ticks once per period.
C11_EachStartAddsATimer ==
    [][\A c \in Channels :
        /\ Started(c) =>
            /\ Len(timers'[c]) = Len(timers[c]) + 1
            /\ \A i \in DOMAIN timers[c] : timers'[c][i] = timers[c][i]
            /\ timers'[c][Len(timers'[c])] =
                   [period |-> duration[c], remaining |-> duration[c]]
        /\ IntervalFire(c) =>
            /\ \E i \in DOMAIN timers[c] :
                   /\ timers[c][i].remaining = 0
                   /\ timers' = [timers EXCEPT ![c][i].remaining = timers[c][i].period]
            /\ beat'[c] = (beat[c] + 1) % Steps
            /\ ~paused'[c]
            /\ Len(timeouts'[c]) = Len(timeouts[c]) + 1
        /\ \A i \in DOMAIN timers'[c] :
               timers'[c][i].remaining \in 0 .. timers'[c][i].period]_vars

C11_TwoTicksInOnePeriod ==
    \E c \in Channels :
        /\ last.op = "playBeat" /\ last.ch = c
        /\ interval[c] = 2 /\ Len(timers[c]) = 2
        /\ \A i \in DOMAIN timers[c] :
               /\ timers[c][i].period = duration[c]
               /\ timers[c][i].remaining = timers[c][i].period
        /\ beat[c] = 2 /\ ticks[c] = 2
        /\ Len(timeouts[c]) = 2
        /\ starts[c] = 2

\* C12: on channel 0 holding the pattern 1,0,1,1,1,0,1,1,1,0,1,1,1,1,1,1 the
\* n-th tick since the cursor was 0 reads index n - 1; it notifies with that
\* index exactly at the indices 0,2,3,4,6,7,8,10,11,12,13,14,15 and plays at
\* level 0 exactly at 1,5,9, and the 16th tick leaves the cursor at 0.
C12_PatternRun ==
    LET pattern == Arr(<<1, 0, 1, 1, 1, 0, 1, 1, 1, 0, 1, 1, 1, 1, 1, 1>>)
        notified == {0, 2, 3, 4, 6, 7, 8, 10, 11, 12, 13, 14, 15}
        silent == {1, 5, 9}
        k == last.beats[0] IN
    (last.op = "playBeat" /\ last.ch = 0 /\ sequence[0] = pattern) =>
        /\ k = (ticks[0] + Steps - 1) % Steps
        /\ beat[0] = (k + 1) % Steps
        /\ k \in notified \cup silent
        /\ k \in notified <=> dispatched = <<[name |-> "hat", index |-> k]>>
        /\ k \in silent <=> dispatched = <<>>
        /\ k \in silent <=> volume[0] = 0
        /\ k \in notified <=> volume[0] = 1
        /\ ~paused[0]

C12_SixteenthTick ==
    /\ last.op = "playBeat" /\ last.ch = 0
    /\ sequence[0] = Arr(<<1, 0, 1, 1, 1, 0, 1, 1, 1, 0, 1, 1, 1, 1, 1, 1>>)
    /\ last.beats[0] = Steps - 1
    /\ dispatched = <<[name |-> "hat", index |-> Steps - 1]>>
    /\ beat[0] = 0 /\ ticks[0] = 0
    /\ Len(timers[0]) = 1

\* C13: the Sequencer's tempo setter leaves every timer as it is, none
\* cancelled, none created, none rescheduled; a timer keeps for life the
\* period it was created with, so a tick makes its timer due again after
\* that old period, while the sound is played for the step duration of the
\* moment of the tick.
C13_TempoChangeKeepsTimers ==
    [][\A c \in Channels :
        /\ (\E b \in Tempos : SequencerSetBpm(b)) =>
               timers' = timers /\ interval' = interval
        /\ \A i \in DOMAIN timers[c] \cap DOMAIN timers'[c] :
               timers'[c][i].period = timers[c][i].period
        /\ IntervalFire(c) =>
            /\ \E i \in DOMAIN timers[c] :
                   /\ timers[c][i].remaining = 0
                   /\ timers'[c][i].remaining = timers[c][i].period
            /\ timeouts'[c][Len(timeouts'[c])].duration = duration[c]
            /\ timeouts'[c][Len(timeouts'[c])].remaining = Max(0, duration[c] - 10)]_vars

C13_TickAtOldPeriod ==
    \E c \in Channels :
        /\ last.op = "playBeat" /\ last.ch = c
        /\ Len(timers[c]) = 1
        /\ timers[c][1].period # duration[c]
        /\ timers[c][1].remaining = timers[c][1].period
        /\ timeouts[c] # <<>>
        /\ timeouts[c][Len(timeouts[c])].duration = duration[c]
        /\ beat[c] >= 2

\* A channel is Playing while its handle names a timer and Idle otherwise.
Playing(c) == interval[c] # 0

\* C14: clear, the bpm setters and a click on a cell, on an Idle or a Playing
\* channel, leave the channel's cursor, its timers and its handle as they
\* are; a channel goes from Idle to Playing only in a step that calls loop
\* and from Playing to Idle only in a step that calls stop.
C14_EditsKeepCursorAndTimers ==
    [][\A c \in Channels :
        /\ (\/ ChannelClear(c)
            \/ ClearButtonClick
            \/ \E b \in Tempos : ChannelSetBpm(c, b)
            \/ \E b \in Tempos : SequencerSetBpm(b)
            \/ \E i \in EditCells : BeatClick(c, i)) =>
               /\ beat'[c] = beat[c]
               /\ timers'[c] = timers[c]
               /\ interval'[c] = interval[c]
        /\ (~Playing(c) /\ Playing(c)') => Started(c)
        /\ (Playing(c) /\ ~Playing(c)') => Stopped(c)]_vars

C14_ClearedWhilePlaying ==
    \E c \in Channels :
        /\ last.op = "Channel.clear" /\ last.ch = c
        /\ Playing(c) /\ Len(timers[c]) = 1
        /\ beat[c] > 0
        /\ sequence[c] = Zeros

\* C15: a tick is audible or silent by the value the cell at the cursor
\* holds when the tick runs, and writes nothing; a cell changes only in a
\* step that writes it, a click on a cell writes that cell alone and leaves
\* the sounds and what earlier ticks did as they are: so the last write to
\* the cell before the tick decides it, and later writes and writes to other
\* cells do not.
C15_TickReadsCellAtCursor ==
    [][\A c \in Channels :
        /\ IntervalFire(c) =>
            /\ volume'[c] = (IF sequence[c][beat[c]] # 0 THEN 1 ELSE 0)
            /\ dispatched' # <<>> <=> sequence[c][beat[c]] # 0
            /\ sequence' = sequence
        /\ \A i \in DOMAIN sequence[c] :
            /\ sequence'[c][i] # sequence[c][i] =>
                   \/ BeatClick(c, i)
                   \/ ClearButtonClick
                   \/ ChannelClear(c)
            /\ (i \in EditCells /\ BeatClick(c, i)) =>
                   /\ sequence'[c][i] = elBeat'[c][i]
                   /\ \A j \in DOMAIN sequence[c] \ {i} :
                          sequence'[c][j] = sequence[c][j]
                   /\ \A d \in Channels \ {c} : sequence'[d] = sequence[d]
                   /\ UNCHANGED <<soundVars, timeouts, beat>>]_vars

C15_TickAfterWrite ==
    /\ last.op = "playBeat" /\ last.ch = 0
    /\ last.beats[0] = 1
    /\ SeedSequence(0)[1] = 0 /\ sequence[0][1] = 1
    /\ dispatched = <<[name |-> "hat", index |-> 1]>>
    /\ volume[0] = 1

\* C16: a step that stops a channel leaves the pending timeouts of its sound
\* as they are; Sound.stop run on a sound at volume 0, paused and rewound
\* leaves it so at each of its statements; and a stopped channel that was
\* started once since the stop before, once its sound is paused, keeps it
\* paused in every step that is not a start.
C16_SilentAfterStop ==
    [][\A c \in Channels :
        /\ Stopped(c) => timeouts'[c] = timeouts[c]
        /\ (Silent(c) /\ (StopTimeout(c) \/ SoundStopPause(c) \/ SoundStopRewind(c)))
               => Silent(c)'
        /\ (~Playing(c) /\ starts[c] = 1 /\ paused[c] /\ ~Started(c))
               => paused'[c]]_vars

\* The same with the last part kept to a stopped channel that has no timer
\* left.
C16_SilentWhenNoTimerLeft ==
    [][\A c \in Channels :
        /\ Stopped(c) => timeouts'[c] = timeouts[c]
        /\ (Silent(c) /\ (StopTimeout(c) \/ SoundStopPause(c) \/ SoundStopRewind(c)))
               => Silent(c)'
        /\ (~Playing(c) /\ timers[c] = <<>> /\ paused[c] /\ ~Started(c))
               => paused'[c]]_vars

\* C17: in every reachable state each channel's sequence has exactly 16
\* cells, at the indices 0 to 15, and its cursor is one of 0 to 15.
C17_SixteenCellsCursorInRange ==
    \A c \in Channels :
        /\ Length(sequence[c]) = 16
        /\ DOMAIN sequence[c] = 0 .. 15
        /\ beat[c] \in 0 .. 15

C17_LastStepOfEditedPattern ==
    \E c \in Channels :
        /\ sequence[c] = [Zeros EXCEPT ![1] = 1]
        /\ SeedSequence(c)[1] = 0
        /\ Playing(c)
        /\ beat[c] = 15
        /\ last.op = "playBeat" /\ last.ch = c

\* The timers of channel c that its handle does not name.
Leaked(c) == 1 .. (Len(timers[c]) - (IF Playing(c) THEN 1 ELSE 0))

\* C18: the handle of a channel names its newest timer or none; a stop of a
\* channel started k times since it was last Idle cancels the one timer the
\* handle names and leaves the others, k - 1 at least; a timer the handle
\* does not name is still there after every step, start and stop included;
\* and its tick on the stopped channel advances the cursor and plays the
\* sound.
C18_StopCancelsNewestTimerOnly ==
    [][\A c \in Channels :
        /\ interval'[c] \in {0, Len(timers'[c])}
        /\ Playing(c)' => Len(timers'[c]) >= starts'[c]
        /\ Stopped(c) =>
            /\ Len(timers'[c]) = Len(timers[c]) - (IF Playing(c) THEN 1 ELSE 0)
            /\ Playing(c) => Len(timers'[c]) >= starts[c] - 1
            /\ ~Playing(c)'
        /\ \A i \in Leaked(c) :
            /\ i \in DOMAIN timers'[c]
            /\ timers'[c][i].period = timers[c][i].period
        /\ (IntervalFire(c) /\ ~Playing(c)) =>
            /\ beat'[c] = (beat[c] + 1) % Steps
            /\ ~paused'[c]
            /\ ~Playing(c)']_vars

C18_LeakedTimerOutlivesRestart ==
    \E c \in Channels :
        /\ last.op = "playBeat" /\ last.ch = c
        /\ ~Playing(c)
        /\ Len(timers[c]) = 1
        /\ starts[c] = 1
        /\ beat[c] >= 1
        /\ ~paused[c]

\* C19: with the tempo as constructed (a step of 125 ms) and each channel
\* started at most once between stops, a tick finds no Sound.stop of its
\* sound pending: the one the tick before scheduled has run; so a sound has
\* at most one pending at any time, and the Sound.stop that runs is the one
\* of the sound's latest play.
C19_StopBeforeNextTick ==
    [][\A c \in Channels :
        /\ duration[c] = StepDuration(DefaultBpm) /\ duration[c] > 10
        /\ IntervalFire(c) => timeouts[c] = <<>>
        /\ Len(timeouts'[c]) <= 1
        /\ StopTimeout(c) =>
            /\ Len(timeouts[c]) = 1
            /\ timeouts'[c] = <<>>]_vars

C19_StoppedBeforeNextTick ==
    \E c \in Channels :
        /\ last.op = "timeout" /\ last.ch = c
        /\ pc = Idle
        /\ Len(timers[c]) = 1 /\ starts[c] = 1 /\ Playing(c)
        /\ timers[c][1].remaining > 0
        /\ timers[c][1].remaining = timers[c][1].period - last.age
        /\ timeouts[c] = <<>>
        /\ beat[c] >= 2

\* C20: driven from the buttons of the UI alone, the play button calls play
\* when the playing flag is false and stop when it is true, and flips the
\* flag; so in every reachable state a channel has one timer, named by its
\* handle, when the flag is true and none when it is false, and a click on
\* the clear button changes neither the flag nor a timer.
C20_OneTimerIffPlaying ==
    [][/\ \A c \in Channels :
            /\ Len(timers'[c]) = (IF playing' THEN 1 ELSE 0)
            /\ interval'[c] = Len(timers'[c])
            /\ starts'[c] <= 1
       /\ PlayButtonClick =>
            /\ playing' = ~playing
            /\ \A c \in Channels : IF playing THEN Stopped(c) ELSE Started(c)
       /\ ClearButtonClick =>
            /\ playing' = playing
            /\ timers' = timers
            /\ interval' = interval]_vars

C20_ClearedWhilePlaying ==
    /\ last.op = "clearButton.click"
    /\ playing
    /\ \A c \in Channels :
           /\ Len(timers[c]) = 1 /\ interval[c] = 1
           /\ beat[c] > 0
           /\ sequence[c] = Zeros
    /\ calls = 3

====
